---- MODULE Spec2Model ----
(***************************************************************************)
(* A model of teras: the Vocab container and the Preprocessor of           *)
(* teras/preprocessing/text.py, the Trainer event loop of                  *)
(* teras/training/trainer.py with its Reporter, and the Saver of           *)
(* teras/framework/chainer/callbacks.py.                                   *)
(***************************************************************************)
EXTENDS Integers, Sequences, FiniteSets, TLC

(***************************************************************************)
(* Bounds of the model.                                                    *)
(***************************************************************************)
\* largest id a token may be given before add/assignment are no longer tried
MaxId == 2
\* longest iterable handed to Vocab.fromkeys
MaxKeys == 2

\* the tokens the vocabulary operations are tried with
Tokens == {"a", "b", "c"}
\* the ids direct assignment and lookup are tried with (-1 is text.py's pad id)
Ids == -1..MaxId

VARIABLES
    data,       \* Vocab.data: the token -> id dict, in insertion order
    id2word,    \* Vocab._id2word: the id -> token dict
    index,      \* Vocab._index
    fresh,      \* TRUE while the object came from Vocab() and only add was used
    vlast       \* the last Vocab call: its name, arguments, result and error

vvars == <<data, id2word, index, fresh, vlast>>

VARIABLES
    update,         \* Trainer._update: "default" or "custom"
    config,         \* Trainer._config: "unset" or the function configure stored
    acc_func,       \* whether Trainer was given an accuracy function
    hooks,          \* EventSender: the hooks, in registration order
    callbacks,      \* EventSender: the attached callbacks
    insts,          \* callback objects created so far, per callback name
    fits,           \* fit calls made so far
    pc,             \* where the running fit call is ("idle": none is running)
    args,           \* the arguments of the last fit call
    do_validation,  \* fit's local
    epoch,          \* fit's loop variable
    train,          \* _process' argument
    batch_index,    \* _process' loop variable
    epoch_logs,     \* fit's epoch_logs
    logs,           \* _process' logs
    batch_logs,     \* _process' batch_logs
    trace,          \* the events the last fit call notified, in order
    notified,       \* the last notify: its event, its data and the listeners it called
    ops,            \* what _process did for the current batch, in order
    losses,         \* the losses of the current phase's batches, in order
    marks,          \* the keys handlers have written into epoch_logs, logs, batch_logs
    outcome         \* the last call on the Trainer and the exception it raised

tobj == <<update, config, acc_func, hooks, callbacks, insts>>

tfit == <<fits, pc, args, do_validation, epoch, train, batch_index, epoch_logs, logs,
          batch_logs, trace, notified, ops, losses, marks>>

tvars == <<tobj, tfit, outcome>>

VARIABLES
    reporter,   \* the attached Reporter: its _logs, its _history
    saver,      \* the attached Saver: its interval, the files it has written
    pbar        \* the attached ProgressCallback's _pbar: its size, the values shown

ovars == <<reporter, saver, pbar>>

VARIABLES
    vocabulary,         \* Preprocessor._vocabulary, a Vocab
    embeddings,         \* Preprocessor._embeddings: the rows of the matrix
    new_embeddings,     \* Preprocessor._new_embeddings: the pending vectors
    embed_size,         \* Preprocessor._embed_size
    unknown_id,         \* Preprocessor._unknown_id
    preprocess_token,   \* Preprocessor._preprocess_token: the function's name
    initializer,        \* Preprocessor._initializer: the function's name
    plast               \* the last Preprocessor call: arguments, result, error

pvars == <<vocabulary, embeddings, new_embeddings, embed_size, unknown_id,
           preprocess_token, initializer, plast>>

\* None
None == <<>>

(***************************************************************************)
(* Python dicts.  data keeps insertion order (popitem pops the last item), *)
(* so it is a sequence of [k, v] items with distinct k.                    *)
(***************************************************************************)
Has(d, key) == \E i \in 1..Len(d) : d[i].k = key

Pos(d, key) == CHOOSE i \in 1..Len(d) : d[i].k = key

Get(d, key) == d[Pos(d, key)].v

Put(d, key, val) ==
    IF Has(d, key)
    THEN [d EXCEPT ![Pos(d, key)] = [k |-> key, v |-> val]]
    ELSE Append(d, [k |-> key, v |-> val])

Remove(d, key) == SelectSeq(d, LAMBDA e : e.k # key)

MapPut(f, i, t) == [x \in DOMAIN f \cup {i} |-> IF x = i THEN t ELSE f[x]]

MapDel(f, i) == [x \in DOMAIN f \ {i} |-> f[x]]

EmptyMap == [x \in {} |-> ""]

(***************************************************************************)
(* The outcome of a Vocab method: the object's three fields after the      *)
(* call, what it returned (ret: an id, tok: a token, each a sequence of    *)
(* length 0 or 1) and the exception it raised ("none" when it returned).   *)
(***************************************************************************)
Outcome(d, w, n, ret, tok, err) ==
    [data |-> d, id2word |-> w, index |-> n, ret |-> ret, tok |-> tok, err |-> err]

Self == Outcome(data, id2word, index, <<>>, <<>>, "none")

Returning(o, ret) == [o EXCEPT !.ret = ret, !.err = "none"]

Raising(o, err) == [o EXCEPT !.ret = <<>>, !.tok = <<>>, !.err = err]

\* an argument of __setitem__: an int, or a value that is no int (a float)
IntItem(n) == [isint |-> TRUE, val |-> n]

FloatItem(n) == [isint |-> FALSE, val |-> n]

Items == {IntItem(n) : n \in Ids} \cup {FloatItem(1)}

NoItem == IntItem(0)

Call(op, key, item) == [op |-> op, key |-> key, item |-> item]

(***************************************************************************)
(* Vocab's methods, as functions of the object's state o.                  *)
(***************************************************************************)
\* __missing__ that leaves a gap: the id after the next one
MissingSkipsAnId(o, key) ==
    LET idx == o.index + 2
    IN  Outcome(Put(o.data, key, idx), MapPut(o.id2word, idx, key), idx,
                <<idx>>, <<>>, "none")

\* __missing__ (text.py 48-52): the next id, bound in both dicts
Missing(o, key) ==
    LET idx == o.index + 1
    IN  Outcome(Put(o.data, key, idx), MapPut(o.id2word, idx, key), idx,
                <<idx>>, <<>>, "none")

\* UserDict.__getitem__ with Vocab.__missing__ (text.py 45-52)
GetItem(o, key) ==
    IF Has(o.data, key) THEN Returning(o, <<Get(o.data, key)>>)
    ELSE Missing(o, key)

\* Vocab.get (text.py 40-43)
VocabGet(o, key, default) ==
    IF Has(o.data, key) THEN GetItem(o, key) ELSE Returning(o, default)

\* __setitem__ without the check that the id is free
SetItemUnchecked(o, key, item) ==
    IF ~item.isint THEN Raising(o, "ValueError")
    ELSE LET w == IF Has(o.data, key) /\ Get(o.data, key) \in DOMAIN o.id2word
                  THEN MapDel(o.id2word, Get(o.data, key)) ELSE o.id2word
         IN  Outcome(Put(o.data, key, item.val), MapPut(w, item.val, key),
                     IF item.val > o.index THEN item.val ELSE o.index,
                     <<>>, <<>>, "none")

\* Vocab.__setitem__ (text.py 54-66)
SetItem(o, key, item) ==
    IF ~item.isint THEN Raising(o, "ValueError")
    ELSE IF (IF item.val \in DOMAIN o.id2word
             THEN o.id2word[item.val] ELSE key) # key
    THEN Raising(o, "ValueError")
    ELSE IF Has(o.data, key) /\ Get(o.data, key) \notin DOMAIN o.id2word
    THEN Raising(o, "KeyError")
    ELSE LET w == IF Has(o.data, key)
                  THEN MapDel(o.id2word, Get(o.data, key)) ELSE o.id2word
         IN  Outcome(Put(o.data, key, item.val), MapPut(w, item.val, key),
                     IF item.val > o.index THEN item.val ELSE o.index,
                     <<>>, <<>>, "none")

\* Vocab.__delitem__ (text.py 68-69): data.pop(key), then del _id2word[id]
DelItem(o, key) ==
    IF ~Has(o.data, key) THEN Raising(o, "KeyError")
    ELSE LET id == Get(o.data, key)
             d  == Remove(o.data, key)
         IN  IF id \in DOMAIN o.id2word
             THEN Outcome(d, MapDel(o.id2word, id), o.index, <<>>, <<>>, "none")
             ELSE Outcome(d, o.id2word, o.index, <<>>, <<>>, "KeyError")

\* the body of Vocab.fromkeys' loop (text.py 87-89) from position i on
RECURSIVE FromKeysLoop(_, _, _)
FromKeysLoop(o, keys, i) ==
    IF i > Len(keys) THEN o
    ELSE FromKeysLoop(
             Outcome(Put(o.data, keys[i], i - 1), MapPut(o.id2word, i - 1, keys[i]),
                     o.index, <<>>, <<>>, "none"),
             keys, i + 1)

\* Vocab.__init__ (text.py 35-38)
NewVocab == Outcome(<<>>, EmptyMap, -1, <<>>, <<>>, "none")

\* Vocab.fromkeys (text.py 84-91): idx is unbound after a loop over nothing
FromKeys(o, keys) ==
    IF Len(keys) = 0 THEN Raising(o, "UnboundLocalError")
    ELSE [FromKeysLoop(NewVocab, keys, 1) EXCEPT !.index = Len(keys) - 1]

\* Vocab.lookup (text.py 93-94)
Lookup(o, value) ==
    IF value \in DOMAIN o.id2word
    THEN [o EXCEPT !.ret = <<>>, !.tok = <<o.id2word[value]>>, !.err = "none"]
    ELSE Raising(o, "KeyError")

\* Vocab.pop (text.py 98-105); default is <<>> when the caller gives none
Pop(o, key, default) ==
    IF Has(o.data, key)
    THEN LET got == GetItem(o, key)
             del == DelItem(got, key)
         IN  IF del.err = "none" THEN Returning(del, got.ret) ELSE del
    ELSE IF default = <<>> THEN Raising(o, "KeyError")
    ELSE Returning(o, default)

\* Vocab.popitem (text.py 107-110): dict.popitem removes the last item
PopItem(o) ==
    IF Len(o.data) = 0 THEN Raising(o, "KeyError")
    ELSE LET last == o.data[Len(o.data)]
             d    == SubSeq(o.data, 1, Len(o.data) - 1)
         IN  IF last.v \in DOMAIN o.id2word
             THEN Outcome(d, MapDel(o.id2word, last.v), o.index,
                          <<last.v>>, <<last.k>>, "none")
             ELSE Outcome(d, o.id2word, o.index, <<>>, <<>>, "KeyError")

\* Vocab.clear (text.py 112-115)
Clear(o) == Outcome(<<>>, EmptyMap, 0, <<>>, <<>>, "none")

\* Vocab.setdefault (text.py 121-125)
SetDefault(o, key, default) ==
    IF Has(o.data, key) THEN GetItem(o, key)
    ELSE LET set == SetItem(o, key, default)
         IN  IF set.err = "none" THEN Returning(set, <<default.val>>) ELSE set

(***************************************************************************)
(* One Vocab object and the calls made on it.                              *)
(***************************************************************************)
\* the object's fields become those of outcome o; the call is recorded
Becomes(o, call, keepsFresh) ==
    /\ data' = o.data
    /\ id2word' = o.id2word
    /\ index' = o.index
    /\ fresh' = (fresh /\ keepsFresh)
    /\ vlast' = [call |-> call, ret |-> o.ret, tok |-> o.tok, err |-> o.err]
    /\ UNCHANGED <<tvars, ovars, pvars>>

KeySeqs == UNION {[1..n -> Tokens] : n \in 0..MaxKeys}

VNew ==
    /\ data' = NewVocab.data
    /\ id2word' = NewVocab.id2word
    /\ index' = NewVocab.index
    /\ fresh' = TRUE
    /\ vlast' = [call |-> Call("new", "", NoItem), ret |-> <<>>, tok |-> <<>>,
                 err |-> "none"]
    /\ UNCHANGED <<tvars, ovars, pvars>>

VAdd ==
    \E key \in Tokens :
        /\ Has(data, key) \/ index < MaxId
        /\ Becomes(GetItem(Self, key), Call("add", key, NoItem), TRUE)

VGet ==
    \E key \in Tokens, default \in {<<>>, <<0>>} :
        Becomes(VocabGet(Self, key, default), Call("get", key, NoItem), FALSE)

VSetItem ==
    \E key \in Tokens, item \in Items :
        Becomes(SetItem(Self, key, item), Call("setitem", key, item), FALSE)

VDelItem ==
    \E key \in Tokens :
        Becomes(DelItem(Self, key), Call("delitem", key, NoItem), FALSE)

VFromKeys ==
    \E keys \in KeySeqs :
        Becomes(FromKeys(Self, keys), Call("fromkeys", "", NoItem), FALSE)

VLookup ==
    \E value \in Ids :
        Becomes(Lookup(Self, value), Call("lookup", "", IntItem(value)), FALSE)

VPop ==
    \E key \in Tokens, default \in {<<>>, <<0>>} :
        Becomes(Pop(Self, key, default), Call("pop", key, NoItem), FALSE)

VPopItem == Becomes(PopItem(Self), Call("popitem", "", NoItem), FALSE)

VClear == Becomes(Clear(Self), Call("clear", "", NoItem), FALSE)

VSetDefault ==
    \E key \in Tokens, default \in {IntItem(-1), IntItem(1)} :
        Becomes(SetDefault(Self, key, default), Call("setdefault", key, default), FALSE)

VInit ==
    /\ data = NewVocab.data
    /\ id2word = NewVocab.id2word
    /\ index = NewVocab.index
    /\ fresh = TRUE
    /\ vlast = [call |-> Call("new", "", NoItem), ret |-> <<>>, tok |-> <<>>,
                err |-> "none"]

VNext ==
    \/ VNew
    \/ VAdd
    \/ VGet
    \/ VSetItem
    \/ VDelItem
    \/ VFromKeys
    \/ VLookup
    \/ VPop
    \/ VPopItem
    \/ VClear
    \/ VSetDefault

(***************************************************************************)
(* Bounds of the Preprocessor model.                                       *)
(***************************************************************************)
\* documents in one fit / transform / fit_transform call
MaxDocs == 2
\* tokens in one document
MaxDocLen == 2
\* the length argument of transform
MaxLength == 2
\* words in an embedding file
MaxFileWords == 1

\* the unknown argument of Preprocessor.__init__ (text.py 149)
UNK == "<UNK>"

\* a pad id that is the id of the unknown token
PadWithUnknown == unknown_id

\* text.py 155: self._pad_id = -1
pad_id == 0 - 1

\* the document of n tokens: "a" and "A" in turn, ending in "a"
Document(n) == [i \in 1..n |-> IF (n - i) % 2 = 0 THEN "a" ELSE "A"]

\* a document the tokenizer raises on
BadDoc == <<"?">>

\* the documents the calls are tried with, as the tokenizer splits them
Documents == {Document(n) : n \in 1..MaxDocLen}

\* raw_documents
DocSeqs(docs) == UNION {[1..n -> docs] : n \in 0..MaxDocs}

\* the length argument: None, or an int
Lengths == {None} \cup {<<n>> : n \in 1..MaxLength}

\* the words of an embedding file's lines, in order
Files == UNION {[1..n -> {"a", UNK}] : n \in 0..MaxFileWords}

\* the width of an embedding file's vectors
FileDim == 3

\* the embed_size arguments: None, or an int
EmbedSizes == {None, <<0>>, <<2>>}

(***************************************************************************)
(* Preprocessor (text.py 144-315), as functions of the object's state p.   *)
(* A vector is known by how it was made, its width and the word it was     *)
(* made for.                                                               *)
(***************************************************************************)
Row(kind, dim, word) == [kind |-> kind, dim |-> dim, word |-> word]

\* the object's fields, with what the call returned and the exception raised
PSelf ==
    [vocabulary |-> vocabulary, embeddings |-> embeddings,
     new_embeddings |-> new_embeddings, embed_size |-> embed_size,
     unknown_id |-> unknown_id, preprocess_token |-> preprocess_token,
     initializer |-> initializer, ret |-> <<>>, done |-> 0, err |-> "none"]

\* str.lower
StrLower(x) == IF x = "A" THEN "a" ELSE x

\* lower (text.py 136-137)
lower(x) == x

\* replace_number (text.py 140-141)
replace_number(x) == IF StrLower(x) \in {"1", "1,000", "1.5"} THEN "<NUM>" ELSE StrLower(x)

\* the functions _preprocess_token is set to
PreprocessFuncs == {"lower", "replace_number"}

\* self._preprocess_token(token)
PreprocessToken(fn, token) ==
    IF fn = "lower" THEN lower(token) ELSE replace_number(token)

\* Preprocessor._load_embeddings (text.py 193-217): [vocabulary, embeddings]
RECURSIVE LoadEmbeddings(_, _, _)
LoadEmbeddings(words, i, acc) ==
    IF i > Len(words) THEN acc
    ELSE LoadEmbeddings(
             words, i + 1,
             IF Has(acc.vocabulary.data, words[i]) THEN acc
             ELSE [vocabulary |-> GetItem(acc.vocabulary, words[i]),
                   embeddings |-> Append(acc.embeddings,
                                         Row("loaded", FileDim, words[i]))])

\* Preprocessor._init_embeddings (text.py 172-191); embed_file: None or the
\* file's words
InitEmbeddings(p, embed_file, size) ==
    IF embed_file # None
    THEN LET l == LoadEmbeddings(embed_file[1], 1,
                                 [vocabulary |-> NewVocab, embeddings |-> <<>>])
         IN  IF Len(l.embeddings) = 0 THEN [p EXCEPT !.err = "IndexError"]
             ELSE [p EXCEPT !.vocabulary = Returning(l.vocabulary, <<>>),
                            !.embeddings = l.embeddings,
                            !.new_embeddings = <<>>, !.embed_size = FileDim]
    ELSE IF size # None
    THEN IF size[1] <= 0 THEN [p EXCEPT !.err = "ValueError"]
         ELSE [p EXCEPT !.vocabulary = NewVocab, !.embeddings = <<>>,
                        !.new_embeddings = <<>>, !.embed_size = size[1]]
    ELSE [p EXCEPT !.err = "ValueError"]

\* self._initializer(): a vector, or the exception the function raises
Initialize(p, word) ==
    IF p.initializer = "raising" THEN [row |-> <<>>, err |-> "InitializerError"]
    ELSE [row |-> <<Row("random", p.embed_size, word)>>, err |-> "none"]

\* Preprocessor._add_vocabulary (text.py 219-229)
AddVocabulary(p, word, random) ==
    IF Has(p.vocabulary.data, word)
    THEN [p EXCEPT !.ret = GetItem(p.vocabulary, word).ret]
    ELSE LET v == GetItem(p.vocabulary, word)
             q == [p EXCEPT !.vocabulary = Returning(v, <<>>)]
             i == IF random THEN Initialize(p, word)
                  ELSE [row |-> <<Row("zeros", p.embed_size, word)>>, err |-> "none"]
         IN  IF i.err # "none" THEN [q EXCEPT !.err = i.err, !.ret = <<>>]
             ELSE [q EXCEPT !.new_embeddings = @ \o i.row, !.ret = v.ret]

\* Preprocessor.__init__ (text.py 146-167)
NewPreprocessor(p, embed_file, size, init) ==
    LET e == InitEmbeddings(p, embed_file, size)
    IN  IF e.err # "none" THEN e
        ELSE LET a == AddVocabulary(e, UNK, FALSE)
             IN  [a EXCEPT !.unknown_id = a.ret[1], !.ret = <<>>,
                           !.initializer = init, !.preprocess_token = "lower"]

\* Preprocessor.set_preprocess_func (text.py 169-170)
SetPreprocessFunc(p, fn) == [p EXCEPT !.preprocess_token = fn]

\* Preprocessor._extract_tokens (text.py 269-276): [tokens, err]
ExtractTokens(p, document, preprocess) ==
    IF document = BadDoc THEN [tokens |-> <<>>, err |-> "TokenizerError"]
    ELSE [tokens |-> IF preprocess
                     THEN [i \in 1..Len(document) |->
                              PreprocessToken(p.preprocess_token, document[i])]
                     ELSE document,
          err |-> "none"]

\* the loop of _fit_each (text.py 238-239) from token i on
RECURSIVE AddTokens(_, _, _)
AddTokens(p, tokens, i) ==
    IF i > Len(tokens) \/ p.err # "none" THEN p
    ELSE AddTokens(AddVocabulary(p, tokens[i], TRUE), tokens, i + 1)

\* Preprocessor._fit_each (text.py 236-240)
FitEach(p, document, preprocess) ==
    LET t == ExtractTokens(p, document, preprocess)
    IN  IF t.err # "none" THEN [p EXCEPT !.err = t.err]
        ELSE [AddTokens(p, t.tokens, 1) EXCEPT !.ret = <<>>]

\* the loop of fit (text.py 232-233) from document i on; done counts the
\* documents that were fitted
RECURSIVE FitLoop(_, _, _, _)
FitLoop(p, docs, preprocess, i) ==
    IF i > Len(docs) \/ p.err # "none" THEN p
    ELSE LET f == FitEach(p, docs[i], preprocess)
         IN  FitLoop(IF f.err = "none" THEN [f EXCEPT !.done = i] ELSE f,
                     docs, preprocess, i + 1)

\* fit that undoes what it did when it fails
FitOrRollBack(p, docs, preprocess) ==
    LET f == FitLoop(p, docs, preprocess, 1)
    IN  IF f.err = "none" THEN f ELSE [p EXCEPT !.err = f.err, !.done = f.done]

\* Preprocessor.fit (text.py 231-234)
PFit(p, docs, preprocess) == FitLoop(p, docs, preprocess, 1)

\* get_vocabulary_id that inserts the word
GetVocabularyIdAdding(p, word) ==
    LET g == GetItem(p.vocabulary, word)
    IN  [p EXCEPT !.vocabulary = Returning(g, <<>>), !.ret = g.ret]

\* Preprocessor.get_vocabulary_id (text.py 302-303)
GetVocabularyId(p, word) ==
    LET g == VocabGet(p.vocabulary, word, <<p.unknown_id>>)
    IN  [p EXCEPT !.vocabulary = Returning(g, <<>>), !.ret = g.ret]

\* the loop of _transform_each (text.py 262-263) from token i on
RECURSIVE PutIds(_, _, _, _)
PutIds(p, tokens, word_ids, i) ==
    IF i > Len(tokens) THEN [p EXCEPT !.ret = word_ids]
    ELSE LET g == GetVocabularyId(p, tokens[i])
         IN  PutIds(g, tokens, [word_ids EXCEPT ![i] = g.ret[1]], i + 1)

\* Preprocessor._transform_each (text.py 253-264): ret is word_ids
TransformEach(p, document, length, preprocess) ==
    LET t == ExtractTokens(p, document, preprocess)
    IN  IF t.err # "none" THEN [p EXCEPT !.err = t.err]
        ELSE IF length # None /\ Len(t.tokens) > length[1]
        THEN [p EXCEPT !.err = "ValueError"]
        ELSE PutIds(p, t.tokens,
                    IF length # None THEN [i \in 1..length[1] |-> pad_id]
                    ELSE [i \in 1..Len(t.tokens) |-> 0],
                    1)

\* the loop of transform (text.py 247-248) from document i on: ret is samples
RECURSIVE TransformLoop(_, _, _, _, _, _)
TransformLoop(p, docs, length, preprocess, samples, i) ==
    IF i > Len(docs) THEN [p EXCEPT !.ret = samples]
    ELSE LET t == TransformEach(p, docs[i], length, preprocess)
         IN  IF t.err # "none" THEN [t EXCEPT !.ret = <<>>]
             ELSE TransformLoop(t, docs, length, preprocess,
                                Append(samples, t.ret), i + 1)

\* Preprocessor.transform (text.py 245-251)
PTransform(p, docs, length, preprocess) ==
    TransformLoop(p, docs, length, preprocess, <<>>, 1)

\* Preprocessor.fit_transform (text.py 278-281): fit is called with
\* raw_documents alone
FitTransform(p, docs, length, preprocess) ==
    LET f == PFit(p, docs, TRUE)
    IN  IF f.err # "none" THEN f ELSE PTransform(f, docs, length, preprocess)

\* Preprocessor.fit_transform_one (text.py 283-286)
FitTransformOne(p, document, length, preprocess) ==
    LET f == FitEach(p, document, preprocess)
    IN  IF f.err # "none" THEN f ELSE TransformEach(f, document, length, preprocess)

\* Preprocessor.get_embeddings (text.py 296-300): ret is the matrix's rows
GetEmbeddings(p) ==
    LET e == IF Len(p.new_embeddings) > 0
             THEN [p EXCEPT !.embeddings = @ \o p.new_embeddings,
                            !.new_embeddings = <<>>]
             ELSE p
    IN  [e EXCEPT !.ret = e.embeddings]

(***************************************************************************)
(* One Preprocessor object and the calls made on it.                       *)
(***************************************************************************)
PCall(op, docs, length, preprocess) ==
    [op |-> op, docs |-> docs, length |-> length, preprocess |-> preprocess]

\* the object's fields become those of p; the call is recorded, with the
\* size the vocabulary had before it (was)
PBecomes(p, call) ==
    /\ vocabulary' = p.vocabulary
    /\ embeddings' = p.embeddings
    /\ new_embeddings' = p.new_embeddings
    /\ embed_size' = p.embed_size
    /\ unknown_id' = p.unknown_id
    /\ preprocess_token' = p.preprocess_token
    /\ initializer' = p.initializer
    /\ plast' = [call |-> call, ret |-> p.ret, done |-> p.done, err |-> p.err,
                 was |-> Len(vocabulary.data)]
    /\ UNCHANGED <<vvars, tvars, ovars>>

\* Preprocessor(embed_size=size, initializer=init)
PNewSized ==
    \E size \in EmbedSizes, init \in {"uniform", "raising"} :
        PBecomes(NewPreprocessor(PSelf, None, size, init),
                 PCall("new", <<>>, size, TRUE))

\* Preprocessor(embed_file=file, initializer=init)
PNewLoaded ==
    \E file \in Files, init \in {"uniform", "raising"} :
        PBecomes(NewPreprocessor(PSelf, <<file>>, <<50>>, init),
                 PCall("load", <<file>>, None, TRUE))

PSetPreprocessFunc ==
    \E fn \in PreprocessFuncs :
        PBecomes(SetPreprocessFunc(PSelf, fn), PCall("set_preprocess_func", <<>>, None, TRUE))

PFitCall ==
    \E docs \in DocSeqs(Documents \cup {BadDoc}), preprocess \in BOOLEAN :
        PBecomes(PFit(PSelf, docs, preprocess), PCall("fit", docs, None, preprocess))

PFitOne ==
    \E doc \in Documents \cup {BadDoc}, preprocess \in BOOLEAN :
        PBecomes(FitEach(PSelf, doc, preprocess),
                 PCall("fit_one", <<doc>>, None, preprocess))

PTransformCall ==
    \E docs \in DocSeqs(Documents), length \in Lengths, preprocess \in BOOLEAN :
        PBecomes(PTransform(PSelf, docs, length, preprocess),
                 PCall("transform", docs, length, preprocess))

PTransformOne ==
    \E doc \in Documents, length \in Lengths, preprocess \in BOOLEAN :
        PBecomes(TransformEach(PSelf, doc, length, preprocess),
                 PCall("transform_one", <<doc>>, length, preprocess))

PFitTransform ==
    \E docs \in DocSeqs(Documents), length \in Lengths, preprocess \in BOOLEAN :
        PBecomes(FitTransform(PSelf, docs, length, preprocess),
                 PCall("fit_transform", docs, length, preprocess))

PFitTransformOne ==
    \E doc \in Documents, length \in Lengths, preprocess \in BOOLEAN :
        PBecomes(FitTransformOne(PSelf, doc, length, preprocess),
                 PCall("fit_transform_one", <<doc>>, length, preprocess))

PGetEmbeddings == PBecomes(GetEmbeddings(PSelf), PCall("get_embeddings", <<>>, None, TRUE))

\* Preprocessor() with its defaults but embed_size=2
PInit ==
    LET p == NewPreprocessor(
                 [vocabulary |-> NewVocab, embeddings |-> <<>>, new_embeddings |-> <<>>,
                  embed_size |-> 0, unknown_id |-> 0, preprocess_token |-> "lower",
                  initializer |-> "uniform", ret |-> <<>>, done |-> 0, err |-> "none"],
                 None, <<2>>, "uniform")
    IN  /\ vocabulary = p.vocabulary
        /\ embeddings = p.embeddings
        /\ new_embeddings = p.new_embeddings
        /\ embed_size = p.embed_size
        /\ unknown_id = p.unknown_id
        /\ preprocess_token = p.preprocess_token
        /\ initializer = p.initializer
        /\ plast = [call |-> PCall("new", <<>>, <<2>>, TRUE), ret |-> <<>>, done |-> 0,
                    err |-> "none", was |-> 0]

\* the calls that build the vocabulary and the embeddings
PNext ==
    \/ PNewSized
    \/ PNewLoaded
    \/ PSetPreprocessFunc
    \/ PFitCall
    \/ PFitOne
    \/ PGetEmbeddings

\* the calls that map documents to ids, on what fit_one and they have built
XNext ==
    \/ PNewSized
    \/ PSetPreprocessFunc
    \/ PFitOne
    \/ PTransformCall
    \/ PTransformOne
    \/ PFitTransform
    \/ PFitTransformOne
    \/ PGetEmbeddings

(***************************************************************************)
(* Python floats, with the significand cut from 53 bits to MantBits so     *)
(* that the values stay small: a float is <<m, e>>, standing for m * 2^e   *)
(* with 2^(MantBits-1) <= m < 2^MantBits, or Zero.  Every operation rounds *)
(* its exact result to the nearest float, ties to the even significand.    *)
(***************************************************************************)
MantBits == 3

RECURSIVE Pow2(_)
Pow2(n) == IF n = 0 THEN 1 ELSE 2 * Pow2(n - 1)

Zero == <<0, 0>>

\* the float nearest to (n / d) * 2^e, for integers n >= 0 and d > 0
RECURSIVE Round(_, _, _)
Round(n, d, e) ==
    IF n = 0 THEN Zero
    ELSE IF n >= d * Pow2(MantBits) THEN Round(n, 2 * d, e + 1)
    ELSE IF n < d * Pow2(MantBits - 1) THEN Round(2 * n, d, e - 1)
    ELSE LET q  == n \div d
             r  == n % d
             up == (2 * r > d) \/ (2 * r = d /\ q % 2 = 1)
         IN  IF ~up THEN <<q, e>>
             ELSE IF q + 1 = Pow2(MantBits) THEN <<Pow2(MantBits - 1), e + 1>>
             ELSE <<q + 1, e>>

\* float(n) of a small non-negative int
Float(n) == Round(n, 1, 0)

\* a + b
FAdd(a, b) ==
    LET e == IF a[2] < b[2] THEN a[2] ELSE b[2]
    IN  Round(a[1] * Pow2(a[2] - e) + b[1] * Pow2(b[2] - e), 1, e)

\* a / n for an int n > 0
FDiv(a, n) == Round(a[1], n, a[2])

\* the float sum of a sequence of floats, added left to right from 0.0
RECURSIVE FSum(_)
FSum(s) == IF Len(s) = 0 THEN Zero ELSE FAdd(FSum(SubSeq(s, 1, Len(s) - 1)), s[Len(s)])

(***************************************************************************)
(* Bounds of the Trainer model.                                            *)
(***************************************************************************)
\* fit calls made on one Trainer
MaxFits == 2
\* samples in the training set
MaxSize == 3
\* the epochs argument of fit
MaxEpochs == 2
\* hooks the application registers itself
MaxUserHooks == 2
\* callback objects the application creates and attaches itself
MaxUserCallbacks == 2
\* the largest interval of a Saver
MaxInterval == 2
\* the largest dataset a progress bar is shown for
MaxBarSize == 7

\* the batch_size arguments fit is tried with
BatchSizes == {1, 2}
\* len(x_val) of the validation pairs fit is tried with
ValSizes == {0, 1, 2}
\* the lengths of the validation_data containers that are no (x_val, y_val) pair
BadValLens == {0, 1, 3}

\* the losses lossfun is taken to return
Losses == {Float(5), Float(6)}

\* TrainEvent (trainer.py 9-19)
TRAIN_BEGIN == "train_begin"
TRAIN_END == "train_end"
EPOCH_BEGIN == "epoch_begin"
EPOCH_END == "epoch_end"
EPOCH_TRAIN_BEGIN == "epoch_train_begin"
EPOCH_TRAIN_END == "epoch_train_end"
EPOCH_VALIDATE_BEGIN == "epoch_validate_begin"
EPOCH_VALIDATE_END == "epoch_validate_end"
BATCH_BEGIN == "batch_begin"
BATCH_END == "batch_end"

(***************************************************************************)
(* EventSender and Callback (teras/base/event.py).                         *)
(***************************************************************************)
Hook(event, fn) == [event |-> event, fn |-> fn]

\* add_hook: the hook goes last
AddHook(hs, event, fn) == Append(hs, Hook(event, fn))

Callback(name, inst, handles) ==
    [name |-> name, inst |-> inst, handles |-> handles, active |-> TRUE]

\* Callback.implement: binds a handler for the event
Implement(cb, event) == [cb EXCEPT !.handles = @ \cup {event}]

Attached(cbs, name) == \E i \in 1..Len(cbs) : cbs[i].name = name

\* attach_callback: [callbacks, err]
AttachCallback(cbs, cb, upd) ==
    IF ~Attached(cbs, cb.name)
    THEN [callbacks |-> Append(cbs, cb), err |-> "none"]
    ELSE IF upd
    THEN [callbacks |-> [i \in 1..Len(cbs) |->
                            IF cbs[i].name = cb.name THEN cb ELSE cbs[i]],
          err |-> "none"]
    ELSE [callbacks |-> cbs, err |-> "DuplicateNameError"]

HookCall(i, h) == [kind |-> "hook", name |-> h.fn, ref |-> i]

CallbackCall(cb) == [kind |-> "callback", name |-> cb.name, ref |-> cb.inst]

RECURSIVE HookCalls(_, _, _)
HookCalls(hs, event, i) ==
    IF i > Len(hs) THEN <<>>
    ELSE (IF hs[i].event = event THEN <<HookCall(i, hs[i])>> ELSE <<>>)
         \o HookCalls(hs, event, i + 1)

RECURSIVE CallbackCalls(_, _, _)
CallbackCalls(cbs, event, i) ==
    IF i > Len(cbs) THEN <<>>
    ELSE (IF cbs[i].active /\ event \in cbs[i].handles
          THEN <<CallbackCall(cbs[i])>> ELSE <<>>)
         \o CallbackCalls(cbs, event, i + 1)

\* the listeners notify(event) calls, in the order it calls them
Listeners(hs, cbs, event) == HookCalls(hs, event, 1) \o CallbackCalls(cbs, event, 1)

(***************************************************************************)
(* The state of the attached Reporter (trainer.py 41-78) and of the        *)
(* attached Saver (chainer/callbacks.py 7-19), and what their handlers do  *)
(* to it.                                                                  *)
(***************************************************************************)
\* a Reporter's empty _logs, and the None of a history entry's 'validation'
NoMetrics == [none |-> TRUE]

\* the predictions forward returns, known by the accuracy acc_func gives them
Ys(accuracy) == [accuracy |-> accuracy]

\* self._acc_func(data['ys'], data['ts']) (trainer.py 61)
AccFunc(ys) == ys.accuracy

\* Reporter.__init__ (trainer.py 43-47); accs: every value acc_func has
\* returned to this Reporter, in call order
NewReporter(inst) ==
    [inst |-> inst, logs |-> NoMetrics, accs |-> <<>>, history |-> <<>>]

\* the metrics of on_epoch_train_end and on_epoch_validate_end
Metrics(r, d) ==
    [accuracy |-> FDiv(r.logs.accuracy, d.num_batches), loss |-> d.loss]

\* a Reporter whose on_epoch_train_begin sets _logs only while it is empty
ReporterOnNoReset(r, event, d) ==
    CASE event \in {EPOCH_TRAIN_BEGIN, EPOCH_VALIDATE_BEGIN} ->
             IF r.logs = NoMetrics
             THEN [r EXCEPT !.logs = [accuracy |-> Zero, loss |-> Zero]]
             ELSE r
      [] event = BATCH_END ->
             [r EXCEPT !.logs.accuracy = FAdd(@, AccFunc(d.ys)),
                       !.accs = Append(@, AccFunc(d.ys))]
      [] event = EPOCH_TRAIN_END ->
             [r EXCEPT !.history =
                 Append(@, [training |-> Metrics(r, d), validation |-> NoMetrics])]
      [] event = EPOCH_VALIDATE_END ->
             [r EXCEPT !.history[Len(r.history)].validation = Metrics(r, d)]
      [] OTHER -> r

\* Reporter's handlers (trainer.py 52-78)
ReporterOn(r, event, d) ==
    CASE event \in {EPOCH_TRAIN_BEGIN, EPOCH_VALIDATE_BEGIN} ->
             [r EXCEPT !.logs = [accuracy |-> Zero, loss |-> Zero]]
      [] event = BATCH_END ->
             [r EXCEPT !.logs.accuracy = FAdd(@, AccFunc(d.ys)),
                       !.accs = Append(@, AccFunc(d.ys))]
      [] event = EPOCH_TRAIN_END ->
             [r EXCEPT !.history =
                 Append(@, [training |-> Metrics(r, d), validation |-> NoMetrics])]
      [] event = EPOCH_VALIDATE_END ->
             [r EXCEPT !.history[Len(r.history)].validation = Metrics(r, d)]
      [] OTHER -> r

\* the Reporter that is attached: a new one when the callbacks hold a new one
ReporterOf(cbs, r) ==
    IF \E i \in 1..Len(cbs) : cbs[i].name = "reporter" /\ cbs[i].inst # r.inst
    THEN NewReporter(
             cbs[CHOOSE i \in 1..Len(cbs) :
                     cbs[i].name = "reporter" /\ cbs[i].inst # r.inst].inst)
    ELSE r

\* Saver.__init__ (chainer/callbacks.py 9-12)
NewSaver(interval) == [interval |-> interval, saved |-> <<>>]

\* "{}.{}.npz".format(self._basename, epoch) (chainer/callbacks.py 17)
ModelFile(e) == <<"basename", e, "npz">>

\* a Saver that saves at every epoch's end
SaverOnEveryEpoch(sv, event, d, fit) ==
    IF event = EPOCH_END
    THEN [sv EXCEPT !.saved = Append(@, [file |-> ModelFile(d.epoch), fit |-> fit,
                                         epoch |-> d.epoch])]
    ELSE sv

\* Saver.on_epoch_end (chainer/callbacks.py 14-19); fit: the fit call it is
\* called in
SaverOn(sv, event, d, fit) ==
    IF event = EPOCH_END /\ d.epoch % sv.interval = 0
    THEN [sv EXCEPT !.saved = Append(@, [file |-> ModelFile(d.epoch), fit |-> fit,
                                         epoch |-> d.epoch])]
    ELSE sv

\* ProgressBar(): not started
NewProgressBar == [running |-> FALSE, total |-> 0, values |-> <<>>]

\* ProgressCallback's handlers (trainer.py 31-38): start(size) begins a bar
\* of that size, update(value) shows the value, finish() ends the bar
ProgressOn(b, event, d) ==
    CASE event \in {EPOCH_TRAIN_BEGIN, EPOCH_VALIDATE_BEGIN} ->
             [running |-> TRUE, total |-> d.size, values |-> <<>>]
      [] event = BATCH_BEGIN ->
             [b EXCEPT !.values = Append(@, (d.batch_size * d.batch_index) + 1)]
      [] event \in {EPOCH_TRAIN_END, EPOCH_VALIDATE_END} -> NewProgressBar
      [] OTHER -> b

\* whether notify(event) calls the handler of the callback of that name
Handles(cbs, name, event) ==
    \E i \in 1..Len(cbs) :
        cbs[i].name = name /\ cbs[i].active /\ event \in cbs[i].handles

\* no handler has written into any of the three dicts
NoMarks == [epoch_logs |-> {}, logs |-> {}, batch_logs |-> {}]

\* a handler that writes data[event] = True into the dict it is given
WriterCallback(events) == Callback("writer", 1, events)

\* _process working on the dict it was given, not on a copy
EpochRecord == "epoch_logs"

\* the dict _process hands to notify at the phase events: its own copy of
\* the one it was given (trainer.py 198)
PhaseRecord == "logs"

\* the dict notify(event, ...) is given by fit and _process (trainer.py 147,
\* 156, 203-204, 221, 232, 236-237)
Delivered(event) ==
    CASE event \in {EPOCH_BEGIN, EPOCH_END} -> "epoch_logs"
      [] event \in {EPOCH_TRAIN_BEGIN, EPOCH_TRAIN_END,
                    EPOCH_VALIDATE_BEGIN, EPOCH_VALIDATE_END} -> PhaseRecord
      [] OTHER -> "batch_logs"

\* the keys of the dicts after notify(event, ...): an attached writer has
\* written into the dict it was given, which is the caller's dict
Written(m, event) ==
    IF Handles(callbacks, "writer", event)
    THEN [m EXCEPT ![Delivered(event)] = @ \cup {event}]
    ELSE m

\* notify(event, data)
Notify(event, d) ==
    /\ notified' = [event |-> event, data |-> d,
                    calls |-> Listeners(hooks, callbacks, event)]
    /\ trace' = Append(trace, event)
    /\ reporter' = IF Handles(callbacks, "reporter", event)
                   THEN ReporterOn(reporter, event, d) ELSE reporter
    /\ saver' = IF Handles(callbacks, "chainer.saver", event)
                THEN SaverOn(saver, event, d, fits) ELSE saver
    /\ pbar' = IF Handles(callbacks, "progress_callback", event)
               THEN ProgressOn(pbar, event, d) ELSE pbar

(***************************************************************************)
(* Dataset (teras/dataset.py): size, and batch(batch_size) in consecutive  *)
(* chunks of batch_size samples, the last one possibly smaller.            *)
(***************************************************************************)
\* math.ceil(size / batch_size) (trainer.py 200)
NumBatches(size, batch_size) == (size + batch_size - 1) \div batch_size

\* len(ts) of batch number i (from 0)
BatchLen(size, batch_size, i) ==
    IF (i + 1) * batch_size <= size THEN batch_size ELSE size - i * batch_size

(***************************************************************************)
(* Trainer (trainer.py 81-237).                                            *)
(***************************************************************************)
CallbackNames == {"progress_callback", "reporter", "user"}

\* ProgressCallback.__init__ (trainer.py 24-29)
ProgressCallback(inst) ==
    Callback("progress_callback", inst, {EPOCH_TRAIN_BEGIN, BATCH_BEGIN, EPOCH_TRAIN_END})

\* Reporter's on_... methods (trainer.py 52-78)
Reporter(inst) ==
    Callback("reporter", inst,
             {EPOCH_TRAIN_BEGIN, EPOCH_VALIDATE_BEGIN, BATCH_END, EPOCH_TRAIN_END,
              EPOCH_VALIDATE_END})

\* a callback of the application, for the events the defaults listen to as well
UserCallback(inst) == Callback("user", inst, {EPOCH_TRAIN_END, BATCH_BEGIN})

\* the events the application registers hooks for
UserEvents == {EPOCH_TRAIN_END, EPOCH_END}

\* an EventSender's state in the middle of a call: [hooks, callbacks, insts, err]
Sender(hs, cbs, n, err) == [hooks |-> hs, callbacks |-> cbs, insts |-> n, err |-> err]

Created(n, name) == [n EXCEPT ![name] = @ + 1]

\* the progress callback attached as any other callback, with update left False
AttachProgressNoUpdate(cbs, cb) == AttachCallback(cbs, cb, FALSE)

\* trainer.py 170: self.attach_callback(callback, update=True)
AttachProgress(cbs, cb) == AttachCallback(cbs, cb, TRUE)

\* trainer.py 189: self.attach_callback(Reporter(self._acc_func))
AttachReporter(cbs, cb) == AttachCallback(cbs, cb, FALSE)

\* trainer.py 163-170: the progress callback of a verbose fit
InitProgress(es, dov, verbose) ==
    IF ~verbose THEN es
    ELSE LET n  == Created(es.insts, "progress_callback")
             c0 == ProgressCallback(n["progress_callback"])
             cb == IF dov
                   THEN Implement(Implement(c0, EPOCH_VALIDATE_BEGIN), EPOCH_VALIDATE_END)
                   ELSE c0
             a  == AttachProgress(es.callbacks, cb)
         IN  Sender(es.hooks, a.callbacks, n, a.err)

\* no logging hook is registered
InitLogHooksMissing(es, dov) == es

\* trainer.py 172-186: the hooks that log a phase's end
InitLogHooks(es, dov) ==
    LET h1 == AddHook(es.hooks, EPOCH_TRAIN_END, "log_training")
        h2 == IF dov THEN AddHook(h1, EPOCH_VALIDATE_END, "log_validation") ELSE h1
    IN  [es EXCEPT !.hooks = h2]

\* trainer.py 188-189: the Reporter of a Trainer with an accuracy function
InitReporter(es, acc) ==
    IF ~acc THEN es
    ELSE LET n == Created(es.insts, "reporter")
             a == AttachReporter(es.callbacks, Reporter(n["reporter"]))
         IN  Sender(es.hooks, a.callbacks, n, a.err)

\* trainer.py 190
InitEndHook(es) == [es EXCEPT !.hooks = AddHook(@, EPOCH_END, "log_epoch_end")]

\* Trainer._init_events_on_fit (trainer.py 162-190); an exception ends it
InitEventsOnFit(es, dov, verbose, acc) ==
    LET e1 == InitProgress(es, dov, verbose)
        e2 == InitLogHooks(e1, dov)
        e3 == InitReporter(e2, acc)
    IN  IF e1.err # "none" THEN e1
        ELSE IF e3.err # "none" THEN e3
        ELSE InitEndHook(e3)

\* validation_data: None, or a container of len items; size is len(x_val) of a pair
NoValidation == [given |-> FALSE, len |-> 0, size |-> 0]

ValidationPair(n) == [given |-> TRUE, len |-> 2, size |-> n]

ValidationData ==
    {NoValidation}
    \cup {[given |-> TRUE, len |-> n, size |-> 0] : n \in BadValLens}
    \cup {ValidationPair(n) : n \in ValSizes}

\* args while no fit call is running
NoArgs ==
    [size |-> 0, batch_size |-> 1, epochs |-> 0, validation_data |-> NoValidation,
     verbose |-> FALSE]

\* the fit calls the training loop is tried with
FitArgs ==
    [size : 0..MaxSize, batch_size : BatchSizes, epochs : 0..MaxEpochs,
     validation_data : ValidationData, verbose : BOOLEAN]

\* the fit calls the listeners are tried with
ListenerFitArgs ==
    [size : {2}, batch_size : {1, 2}, epochs : {1},
     validation_data : {NoValidation, ValidationPair(1)}, verbose : BOOLEAN]

\* the fit calls the Reporter and the Saver are tried with
ObserverFitArgs ==
    [size : {1, 2}, batch_size : {1}, epochs : 0..MaxEpochs,
     validation_data : {NoValidation, ValidationPair(1)}, verbose : {FALSE}]

\* the predictions of a batch: the ones acc_func gives 1.0 and the ones it
\* gives 2.0
Predictions == {Ys(Float(1)), Ys(Float(2))}

\* the verbose fit calls the progress bar is tried with
ProgressFitArgs ==
    [size : 1..MaxBarSize, batch_size : {2, 3}, epochs : {1},
     validation_data : {NoValidation, ValidationPair(4)}, verbose : {TRUE}]

\* trainer.py 120: the truth value of validation_data
Truthy(vd) == vd.given /\ vd.len > 0

NoLogs == [none |-> TRUE]

NoNotify == [event |-> "", data |-> NoLogs, calls |-> <<>>]

Op(op, fn, loss) == [op |-> op, fn |-> fn, loss |-> loss]

\* Trainer.fit up to its first notify (trainer.py 110-141)
Fit(a) ==
    /\ pc = "idle"
    /\ fits < MaxFits
    /\ fits' = fits + 1
    /\ args' = a
    /\ UNCHANGED <<epoch, train, batch_index, epoch_logs, logs, batch_logs, ops, losses>>
    /\ UNCHANGED <<update, config, acc_func, vvars, pvars, saver, marks>>
    /\ IF a.validation_data.given /\ Truthy(a.validation_data)
          /\ a.validation_data.len # 2
       THEN /\ outcome' = [call |-> "fit", err |-> "ValueError"]
            /\ pc' = "raised"
            /\ do_validation' = TRUE
            /\ trace' = <<>>
            /\ notified' = NoNotify
            /\ UNCHANGED <<hooks, callbacks, insts, reporter, pbar>>
       ELSE LET dov == Truthy(a.validation_data)
                es  == InitEventsOnFit(Sender(hooks, callbacks, insts, "none"),
                                       dov, a.verbose, acc_func)
            IN  /\ do_validation' = dov
                /\ hooks' = es.hooks
                /\ callbacks' = es.callbacks
                /\ insts' = es.insts
                /\ reporter' = ReporterOf(es.callbacks, reporter)
                /\ pbar' = IF a.verbose THEN NewProgressBar ELSE pbar
                /\ outcome' = [call |-> "fit", err |-> es.err]
                /\ IF es.err # "none"
                   THEN /\ pc' = "raised"
                        /\ trace' = <<>>
                        /\ notified' = NoNotify
                   ELSE /\ pc' = IF a.epochs >= 1 THEN "epoch_begin" ELSE "train_end"
                        /\ notified' = [event |-> TRAIN_BEGIN, data |-> NoLogs,
                                        calls |-> Listeners(es.hooks, es.callbacks,
                                                            TRAIN_BEGIN)]
                        /\ trace' = <<TRAIN_BEGIN>>

\* trainer.py 143-148: an epoch begins
EpochBegin ==
    /\ pc = "epoch_begin"
    /\ epoch_logs' = [epoch |-> epoch, size |-> args.size]
    /\ marks' = Written([marks EXCEPT !.epoch_logs = {}], EPOCH_BEGIN)
    /\ UNCHANGED <<vvars, pvars, tobj, fits, args, do_validation, epoch, batch_index, logs,
                   batch_logs, ops, losses, outcome>>
    /\ Notify(EPOCH_BEGIN, epoch_logs')
    /\ train' = TRUE
    /\ pc' = "process"

\* the dataset _process is called on
DatasetSize == IF train THEN args.size ELSE args.validation_data.size

\* Trainer._process up to its loop (trainer.py 198-205)
ProcessBegin ==
    /\ pc = "process"
    /\ LET size == DatasetSize
           lg   == [epoch |-> epoch_logs.epoch, size |-> size,
                    num_batches |-> NumBatches(size, args.batch_size), loss |-> None]
       IN  /\ Notify(IF train THEN EPOCH_TRAIN_BEGIN ELSE EPOCH_VALIDATE_BEGIN, lg)
           /\ marks' = Written([marks EXCEPT !.logs = marks.epoch_logs],
                               IF train THEN EPOCH_TRAIN_BEGIN ELSE EPOCH_VALIDATE_BEGIN)
           /\ logs' = [lg EXCEPT !.loss = Zero]
           /\ pc' = IF lg.num_batches > 0 THEN "batch_begin" ELSE "process_end"
    /\ batch_index' = 0
    /\ losses' = <<>>
    /\ ops' = <<>>
    /\ batch_logs' = NoLogs
    /\ UNCHANGED <<vvars, pvars, tobj, fits, args, do_validation, epoch, train, epoch_logs, outcome>>

\* trainer.py 206-221: the next batch, up to its BATCH_BEGIN
BatchBegin ==
    /\ pc = "batch_begin"
    /\ batch_logs' = [train |-> train, batch_index |-> batch_index,
                      batch_size |-> BatchLen(logs.size, args.batch_size, batch_index),
                      ys |-> None, loss |-> None]
    /\ UNCHANGED <<vvars, pvars, tobj, fits, args, do_validation, epoch, train, batch_index,
                   epoch_logs, logs, losses, outcome>>
    /\ Notify(BATCH_BEGIN, batch_logs')
    /\ marks' = Written([marks EXCEPT !.batch_logs = {}], BATCH_BEGIN)
    /\ ops' = <<Op("notify", BATCH_BEGIN, None)>>
    /\ pc' = "batch"

\* the update without the test of train
UpdateAlways(isTrain, fn, loss) == <<Op("update", fn, loss)>>

\* trainer.py 230-231: the update of a training batch
Update(isTrain, fn, loss) == IF isTrain THEN <<Op("update", fn, loss)>> ELSE <<>>

\* trainer.py 223-233: forward, loss, update and BATCH_END of the batch
Batch(ys, loss) ==
    /\ pc = "batch"
    /\ batch_logs' = [batch_logs EXCEPT !.ys = ys, !.loss = loss]
    /\ logs' = [logs EXCEPT !.loss = FAdd(@, loss)]
    /\ losses' = Append(losses, loss)
    /\ UNCHANGED <<vvars, pvars, tobj, fits, args, do_validation, epoch, train, epoch_logs, outcome>>
    /\ Notify(BATCH_END, batch_logs')
    /\ marks' = Written(marks, BATCH_END)
    /\ ops' = ops \o <<Op("forward", "", None), Op("lossfun", "", loss)>>
                  \o Update(train, update, loss)
                  \o <<Op("notify", BATCH_END, None)>>
    /\ batch_index' = batch_index + 1
    /\ pc' = IF batch_index + 1 < logs.num_batches THEN "batch_begin" ELSE "process_end"

\* the sum divided by the number of samples
AverageBySamples(lg) == FDiv(lg.loss, lg.size)

\* trainer.py 235: logs['loss'] /= num_batches
Average(lg) == FDiv(lg.loss, lg.num_batches)

\* trainer.py 235-237 and the return into fit (trainer.py 152-154)
ProcessEnd ==
    /\ pc = "process_end"
    /\ UNCHANGED <<vvars, pvars, tobj, fits, args, do_validation, epoch, batch_index, epoch_logs,
                   batch_logs, ops, losses>>
    /\ IF logs.num_batches = 0
       THEN /\ outcome' = [call |-> "fit", err |-> "ZeroDivisionError"]
            /\ pc' = "raised"
            /\ UNCHANGED <<logs, train, trace, notified, ovars, marks>>
       ELSE /\ logs' = [logs EXCEPT !.loss = Average(logs)]
            /\ Notify(IF train THEN EPOCH_TRAIN_END ELSE EPOCH_VALIDATE_END, logs')
            /\ marks' = Written(marks, IF train THEN EPOCH_TRAIN_END
                                       ELSE EPOCH_VALIDATE_END)
            /\ outcome' = outcome
            /\ IF train /\ do_validation
               THEN train' = FALSE /\ pc' = "process"
               ELSE train' = train /\ pc' = "epoch_end"

\* trainer.py 156 and the loop's next round
EpochEnd ==
    /\ pc = "epoch_end"
    /\ UNCHANGED <<vvars, pvars, tobj, fits, args, do_validation, train, batch_index, epoch_logs,
                   logs, batch_logs, ops, losses, outcome>>
    /\ Notify(EPOCH_END, epoch_logs)
    /\ marks' = Written(marks, EPOCH_END)
    /\ IF epoch < args.epochs
       THEN epoch' = epoch + 1 /\ pc' = "epoch_begin"
       ELSE epoch' = epoch /\ pc' = "train_end"

\* trainer.py 158-160
TrainEnd ==
    /\ pc = "train_end"
    /\ UNCHANGED <<vvars, pvars, tobj, fits, args, do_validation, epoch, train, batch_index,
                   epoch_logs, logs, batch_logs, ops, losses, outcome>>
    /\ Notify(TRAIN_END, NoLogs)
    /\ marks' = marks
    /\ pc' = "returned"

\* fit is left, by return or by an exception: its locals are gone
FitEnds ==
    /\ pc \in {"returned", "raised"}
    /\ pc' = "idle"
    /\ epoch' = 1
    /\ train' = TRUE
    /\ batch_index' = 0
    /\ do_validation' = FALSE
    /\ epoch_logs' = NoLogs
    /\ logs' = NoLogs
    /\ batch_logs' = NoLogs
    /\ trace' = <<>>
    /\ notified' = NoNotify
    /\ ops' = <<>>
    /\ losses' = <<>>
    /\ marks' = NoMarks
    /\ args' = NoArgs
    /\ UNCHANGED <<vvars, pvars, ovars, tobj, fits, outcome>>

\* Trainer.configure (trainer.py 100-108), on a config with the given keys
Configure(hasUpdate, hookEvents, attaches) ==
    /\ pc = "idle"
    /\ Len(SelectSeq(hooks, LAMBDA h : h.fn = "user")) + Len(hookEvents) <= MaxUserHooks
    /\ insts["user"] + (IF attaches THEN 1 ELSE 0) <= MaxUserCallbacks
    /\ config' = IF hasUpdate THEN "custom" ELSE config
    /\ update' = update
    /\ hooks' = hooks \o [i \in 1..Len(hookEvents) |-> Hook(hookEvents[i], "user")]
    /\ LET n == IF attaches THEN Created(insts, "user") ELSE insts
           a == IF attaches
                THEN AttachCallback(callbacks, UserCallback(n["user"]), FALSE)
                ELSE [callbacks |-> callbacks, err |-> "none"]
       IN  /\ insts' = n
           /\ callbacks' = a.callbacks
           /\ outcome' = [call |-> "configure", err |-> a.err]
    /\ UNCHANGED <<vvars, pvars, ovars, acc_func, tfit>>

\* EventSender.attach_callback, called by the application
UserAttach(upd) ==
    /\ pc = "idle"
    /\ insts["user"] < MaxUserCallbacks
    /\ LET n == Created(insts, "user")
           a == AttachCallback(callbacks, UserCallback(n["user"]), upd)
       IN  /\ insts' = n
           /\ callbacks' = a.callbacks
           /\ outcome' = [call |-> IF upd THEN "attach_callback(update=True)"
                                   ELSE "attach_callback(update=False)",
                          err |-> a.err]
    /\ UNCHANGED <<vvars, pvars, ovars, update, config, acc_func, hooks, tfit>>

\* attach_callback(Saver(model, basename, interval=interval)), called by the
\* application
AttachSaver(interval) ==
    /\ pc = "idle"
    /\ ~Attached(callbacks, "chainer.saver")
    /\ LET a == AttachCallback(callbacks, Callback("chainer.saver", 1, {EPOCH_END}), FALSE)
       IN  /\ callbacks' = a.callbacks
           /\ outcome' = [call |-> "attach_callback(Saver)", err |-> a.err]
    /\ saver' = NewSaver(interval)
    /\ UNCHANGED <<vvars, pvars, reporter, pbar, update, config, acc_func, hooks, insts, tfit>>

\* the events of the phases of an epoch
PhaseEvents ==
    {EPOCH_TRAIN_BEGIN, EPOCH_TRAIN_END, EPOCH_VALIDATE_BEGIN, EPOCH_VALIDATE_END}

\* the events a writer is tried on: all that carry a dict, the phases' only,
\* the epoch's only
WriterEvents ==
    {PhaseEvents \cup {EPOCH_BEGIN, EPOCH_END, BATCH_BEGIN, BATCH_END},
     PhaseEvents,
     {EPOCH_BEGIN, EPOCH_END}}

\* attach_callback of a callback whose handlers write into their data,
\* called by the application
AttachWriter(events) ==
    /\ pc = "idle"
    /\ ~Attached(callbacks, "writer")
    /\ LET a == AttachCallback(callbacks, WriterCallback(events), FALSE)
       IN  /\ callbacks' = a.callbacks
           /\ outcome' = [call |-> "attach_callback(writer)", err |-> a.err]
    /\ UNCHANGED <<vvars, pvars, ovars, update, config, acc_func, hooks, insts, tfit>>

OInit ==
    /\ reporter = NewReporter(0)
    /\ saver = NewSaver(0)
    /\ pbar = NewProgressBar

TInit ==
    /\ update = "default"
    /\ config = "unset"
    /\ acc_func \in BOOLEAN
    /\ hooks = <<>>
    /\ callbacks = <<>>
    /\ insts = [n \in CallbackNames |-> 0]
    /\ fits = 0
    /\ pc = "idle"
    /\ args = NoArgs
    /\ do_validation = FALSE
    /\ epoch = 1
    /\ train = TRUE
    /\ batch_index = 0
    /\ epoch_logs = NoLogs
    /\ logs = NoLogs
    /\ batch_logs = NoLogs
    /\ trace = <<>>
    /\ notified = NoNotify
    /\ ops = <<>>
    /\ losses = <<>>
    /\ marks = NoMarks
    /\ outcome = [call |-> "init", err |-> "none"]

\* the training loop: fit calls of every shape, and configure({'update': f})
TNext ==
    \/ \E a \in FitArgs : Fit(a)
    \/ EpochBegin
    \/ ProcessBegin
    \/ BatchBegin
    \/ \E loss \in Losses : Batch(Ys(Float(1)), loss)
    \/ ProcessEnd
    \/ EpochEnd
    \/ TrainEnd
    \/ FitEnds
    \/ Configure(TRUE, <<>>, FALSE)

\* the listeners: hooks and callbacks of the application around small fit calls
LNext ==
    \/ \E a \in ListenerFitArgs : Fit(a)
    \/ EpochBegin
    \/ ProcessBegin
    \/ BatchBegin
    \/ Batch(Ys(Float(1)), Float(5))
    \/ ProcessEnd
    \/ EpochEnd
    \/ TrainEnd
    \/ FitEnds
    \/ \E hasUpdate \in BOOLEAN, hookEvents \in {<<>>} \cup {<<e>> : e \in UserEvents},
          attaches \in BOOLEAN :
           Configure(hasUpdate, hookEvents, attaches)
    \/ \E upd \in BOOLEAN : UserAttach(upd)

\* the Reporter and a Saver around fit calls with batches of differing accuracy
ONext ==
    \/ \E interval \in 1..MaxInterval : AttachSaver(interval)
    \/ \E a \in ObserverFitArgs : Fit(a)
    \/ EpochBegin
    \/ ProcessBegin
    \/ BatchBegin
    \/ \E ys \in Predictions : Batch(ys, Float(5))
    \/ ProcessEnd
    \/ EpochEnd
    \/ TrainEnd
    \/ FitEnds

\* the dicts of fit and _process, with handlers that write into them
RNext ==
    \/ \E events \in WriterEvents : AttachWriter(events)
    \/ \E a \in ObserverFitArgs : Fit(a)
    \/ EpochBegin
    \/ ProcessBegin
    \/ BatchBegin
    \/ Batch(Ys(Float(1)), Float(5))
    \/ ProcessEnd
    \/ EpochEnd
    \/ TrainEnd
    \/ FitEnds

\* verbose fit calls over datasets whose last batch is smaller
GNext ==
    \/ \E a \in ProgressFitArgs : Fit(a)
    \/ EpochBegin
    \/ ProcessBegin
    \/ BatchBegin
    \/ Batch(Ys(Float(1)), Float(5))
    \/ ProcessEnd
    \/ EpochEnd
    \/ TrainEnd
    \/ FitEnds

vars == <<vvars, tvars, ovars, pvars>>

Init == VInit /\ TInit /\ OInit /\ PInit

\* the Vocab object alone
SpecVocab == Init /\ [][VNext]_vars

\* the Trainer's training loop
Spec == Init /\ [][TNext]_vars

\* the Trainer's listeners
SpecListeners == Init /\ [][LNext]_vars

\* the Preprocessor object alone: construction and fit
SpecPreprocessor == Init /\ [][PNext]_vars

\* the Preprocessor object alone: transform and fit_transform
SpecTransform == Init /\ [][XNext]_vars

\* the Trainer with its Reporter and a Saver
SpecObservers == Init /\ [][ONext]_vars

\* the Trainer with handlers that write into the dicts they are given
SpecRecords == Init /\ [][RNext]_vars

\* the Trainer with its ProgressCallback
SpecProgress == Init /\ [][GNext]_vars

(***************************************************************************)
(* The Vocab claims, under SpecVocab.                                      *)
(***************************************************************************)
\* the step is a call of method op
Called(op) == vlast'.call.op = op /\ <<data, id2word, index, fresh, vlast>>' # vvars

\* C8: on a fresh Vocab on which only add is used, adding a token that is not
\* present binds it to the number of tokens present (the k-th distinct token
\* gets id k-1, in both maps) and returns that id; adding a token that is
\* present returns its id and changes neither the maps nor the counter.
C8_AddStep ==
    LET key == vlast'.call.key
        n   == Len(data)
    IN  (fresh' /\ vlast'.call.op = "add") =>
            /\ vlast'.err = "none"
            /\ IF Has(data, key)
               THEN /\ vlast'.ret = <<Get(data, key)>>
                    /\ UNCHANGED <<data, id2word, index>>
               ELSE /\ vlast'.ret = <<n>>
                    /\ data' = Append(data, [k |-> key, v |-> n])
                    /\ id2word' = MapPut(id2word, n, key)
                    /\ \A i \in 1..Len(data') : data'[i].v = i - 1

C8_AddAssignsConsecutiveIds == [][C8_AddStep]_vars

\* C8's case: three distinct tokens were added, then the first one again
C8_Witness ==
    /\ fresh
    /\ Len(data) = 3
    /\ vlast.call.op = "add"
    /\ vlast.ret = <<0>>
    /\ \A i \in 1..3 : data[i].v = i - 1

\* C9: the token -> id map and the id -> token map are inverses of each other,
\* and lookup(add(t)) = t.
C9_MapsAreInverse ==
    /\ \A i \in 1..Len(data) :
           data[i].v \in DOMAIN id2word /\ id2word[data[i].v] = data[i].k
    /\ \A id \in DOMAIN id2word :
           Has(data, id2word[id]) /\ Get(data, id2word[id]) = id
    /\ (vlast.call.op = "add" /\ vlast.err = "none") =>
           Lookup(Self, vlast.ret[1]).tok = <<vlast.call.key>>

\* C10: vocab[token] = id raises when id is no int or is bound to another
\* token, and then leaves both maps and the counter as they were.
C10_SetItemStep ==
    LET key  == vlast'.call.key
        item == vlast'.call.item
    IN  (Called("setitem")
         /\ (~item.isint
             \/ (item.val \in DOMAIN id2word /\ id2word[item.val] # key))) =>
            /\ vlast'.err = "ValueError"
            /\ UNCHANGED <<data, id2word, index>>

C10_SetItemRejectsCollision == [][C10_SetItemStep]_vars

\* C10's case: an id bound to one token was assigned to another token
C10_Witness ==
    /\ vlast.call.op = "setitem"
    /\ vlast.err = "ValueError"
    /\ vlast.call.item.isint
    /\ vlast.call.item.val \in DOMAIN id2word
    /\ id2word[vlast.call.item.val] # vlast.call.key

\* C21: after clear() the object is as Vocab() makes it: both dicts are
\* empty, the next token added is given id 0 and the one added after it
\* id 1.
C21_ClearIsLikeNew ==
    vlast.call.op = "clear" =>
        /\ data = NewVocab.data
        /\ id2word = NewVocab.id2word
        /\ \A key \in Tokens :
               /\ GetItem(Self, key).ret = <<0>>
               /\ GetItem(Self, key).ret = GetItem(NewVocab, key).ret
               /\ \A next \in Tokens \ {key} :
                      GetItem(GetItem(Self, key), next).ret = <<1>>

(***************************************************************************)
(* The Preprocessor claims, under SpecPreprocessor and SpecTransform.      *)
(***************************************************************************)
\* the rows of the table get_embeddings would return
Rows == embeddings \o new_embeddings

\* C11: whatever the construction mode, the unknown token is the first token
\* of the vocabulary (id 0) and its row is the zero vector; a Preprocessor
\* just made from an embed_size has one row, of zeros.
C11_UnknownIsFirstAndZero ==
    /\ unknown_id = 0
    /\ vocabulary.data[1] = [k |-> UNK, v |-> 0]
    /\ Rows[1] = Row("zeros", embed_size, UNK)
    /\ (plast.call.op = "new" /\ plast.err = "none") =>
           GetEmbeddings(PSelf).ret = <<Row("zeros", embed_size, UNK)>>

\* C12: the stored rows and the pending vectors are as many as the tokens of
\* the vocabulary, row i is the vector of the token with id i, and
\* get_embeddings returns all of them and leaves nothing pending.
C12_RowsMatchVocabulary ==
    /\ Len(Rows) = Len(vocabulary.data)
    /\ \A i \in 1..Len(Rows) :
           Has(vocabulary.data, Rows[i].word) /\ Get(vocabulary.data, Rows[i].word) = i - 1
    /\ plast.call.op = "get_embeddings" =>
           /\ Len(plast.ret) = Len(vocabulary.data)
           /\ new_embeddings = <<>>

\* the step is a call of one of the methods names
PCalled(names) == plast'.call.op \in names

\* the tokens _extract_tokens gives for the document
Normalized(document, preprocess) ==
    [i \in 1..Len(document) |->
        IF preprocess THEN PreprocessToken(preprocess_token, document[i])
        ELSE document[i]]

\* the id transform gives a token
IdOf(token) ==
    IF Has(vocabulary.data, token) THEN Get(vocabulary.data, token) ELSE unknown_id

\* the rows of transform's or transform_one's result
Samples(last) == IF last.call.op = "transform_one" THEN <<last.ret>> ELSE last.ret

\* C13: transform and transform_one leave the vocabulary, its counter, the
\* matrix and the pending vectors as they were, whether they return or
\* raise, and give a token that is not in the vocabulary unknown_id.
C13_TransformStep ==
    PCalled({"transform", "transform_one"}) =>
        /\ UNCHANGED <<vocabulary, embeddings, new_embeddings, embed_size, unknown_id,
                       preprocess_token, initializer>>
        /\ plast'.err = "none" =>
              \A d \in 1..Len(plast'.call.docs) :
                  LET tokens == Normalized(plast'.call.docs[d], plast'.call.preprocess)
                  IN  \A i \in 1..Len(tokens) :
                          ~Has(vocabulary.data, tokens[i]) =>
                              Samples(plast')[d][i] = unknown_id

C13_TransformChangesNothing == [][C13_TransformStep]_vars

\* C13's case: transform returned, and gave unknown_id to a token that the
\* vocabulary does not hold
C13_Witness ==
    /\ plast.call.op = "transform"
    /\ plast.err = "none"
    /\ Len(plast.call.docs) = 2
    /\ \E d \in 1..2 : \E i \in 1..Len(plast.call.docs[d]) :
           /\ ~Has(vocabulary.data, Normalized(plast.call.docs[d], plast.call.preprocess)[i])
           /\ plast.ret[d][i] = unknown_id
    /\ Len(vocabulary.data) = 2

\* C14: transform with a length L raises ValueError exactly when a document
\* has more than L tokens; else every row has L entries, the ids of the
\* document's tokens followed by the pad id -1, which is no id of the
\* vocabulary; without a length, a row has as many entries as the document
\* has tokens.
C14_TransformPads ==
    plast.call.op = "transform" =>
        LET docs   == plast.call.docs
            length == plast.call.length
        IN  /\ (plast.err = "ValueError") <=>
                   (length # None /\ \E d \in 1..Len(docs) : Len(docs[d]) > length[1])
            /\ plast.err \in {"none", "ValueError"}
            /\ plast.err = "none" =>
                  /\ Len(plast.ret) = Len(docs)
                  /\ \A d \in 1..Len(docs) :
                        LET tokens == Normalized(docs[d], plast.call.preprocess)
                            row    == plast.ret[d]
                        IN  /\ Len(row) = IF length # None THEN length[1] ELSE Len(tokens)
                            /\ \A i \in 1..Len(row) :
                                   row[i] = IF i <= Len(tokens) THEN IdOf(tokens[i]) ELSE 0 - 1
                            /\ \A i \in 1..Len(tokens) : row[i] # 0 - 1
            /\ (0 - 1) \notin DOMAIN vocabulary.id2word
            /\ \A i \in 1..Len(vocabulary.data) : vocabulary.data[i].v # 0 - 1

\* C14's case: transform padded a document shorter than the length, next to
\* one of that length
C14_Witness ==
    /\ plast.call.op = "transform"
    /\ plast.err = "none"
    /\ plast.call.length = <<2>>
    /\ Len(plast.call.docs) = 2
    /\ Len(plast.call.docs[1]) = 1
    /\ Len(plast.call.docs[2]) = 2
    /\ plast.ret[1][2] = 0 - 1
    /\ plast.ret[1][1] > 0
    /\ plast.ret[2][1] # plast.ret[2][2]

\* C15: with the default normalization function, fit inserts tokens in
\* lower case only: a token with an upper-case letter is never inserted.
C15_FitStep ==
    (PCalled({"fit", "fit_one"}) /\ preprocess_token = "lower" /\ plast'.call.preprocess) =>
        \A d \in 1..Len(plast'.call.docs) : \A i \in 1..Len(plast'.call.docs[d]) :
            LET token == plast'.call.docs[d][i]
            IN  (token # StrLower(token) /\ ~Has(vocabulary.data, token)) =>
                    ~Has(vocabulary'.data, token)

C15_DefaultLowercases == [][C15_FitStep]_vars

\* C16: fit_transform(docs, length, preprocess) returns what fit(docs,
\* preprocess) followed by transform(docs, length, preprocess) returns, and
\* leaves the object as they leave it.
C16_FitTransformStep ==
    PCalled({"fit_transform"}) =>
        LET docs == plast'.call.docs
            f    == PFit(PSelf, docs, plast'.call.preprocess)
            t    == IF f.err # "none" THEN f
                    ELSE PTransform(f, docs, plast'.call.length, plast'.call.preprocess)
        IN  /\ plast'.err = t.err
            /\ plast'.ret = t.ret
            /\ vocabulary' = t.vocabulary
            /\ embeddings' = t.embeddings
            /\ new_embeddings' = t.new_embeddings

C16_FitTransformComposes == [][C16_FitTransformStep]_vars

\* C17: a fit call that raises leaves every binding the vocabulary had, at
\* its id, and keeps the tokens of the documents it had fitted before the
\* one that failed, each at the id it was given.
C17_FitStep ==
    (PCalled({"fit"}) /\ plast'.err # "none") =>
        /\ Len(vocabulary'.data) >= Len(vocabulary.data)
        /\ \A i \in 1..Len(vocabulary.data) : vocabulary'.data[i] = vocabulary.data[i]
        /\ \A i \in DOMAIN vocabulary.id2word :
               i \in DOMAIN vocabulary'.id2word /\ vocabulary'.id2word[i] = vocabulary.id2word[i]
        /\ plast'.done < Len(plast'.call.docs)
        /\ \A d \in 1..plast'.done :
               LET tokens == Normalized(plast'.call.docs[d], plast'.call.preprocess)
               IN  \A i \in 1..Len(tokens) : Has(vocabulary'.data, tokens[i])
        /\ \A i \in 1..Len(vocabulary'.data) :
               /\ vocabulary'.data[i].v = vocabulary.index + 1 + (i - 1 - Len(vocabulary.data))
                  \/ i <= Len(vocabulary.data)
               /\ vocabulary'.id2word[vocabulary'.data[i].v] = vocabulary'.data[i].k

C17_FitIsNotTransactional == [][C17_FitStep]_vars

\* C17's case: fit raised at its second document, after its first document
\* had put two tokens into the vocabulary
C17_Witness ==
    /\ plast.call.op = "fit"
    /\ plast.err = "TokenizerError"
    /\ plast.done = 1
    /\ plast.was = 1
    /\ Len(vocabulary.data) = 3
    /\ Len(new_embeddings) + Len(embeddings) = 3

(***************************************************************************)
(* The Trainer claims.                                                     *)
(***************************************************************************)
\* the state machine of the event sequence: q is the place reached, -1 a
\* sequence that has left it; validates says whether epochs hold a validation
\* segment
Step(q, ev, validates) ==
    CASE q = 0 /\ ev = TRAIN_BEGIN -> 1
      [] q \in {1, 9} /\ ev = EPOCH_BEGIN -> 2
      [] q = 2 /\ ev = EPOCH_TRAIN_BEGIN -> 3
      [] q = 3 /\ ev = BATCH_BEGIN -> 4
      [] q = 4 /\ ev = BATCH_END -> 3
      [] q = 3 /\ ev = EPOCH_TRAIN_END -> 5
      [] q = 5 /\ validates /\ ev = EPOCH_VALIDATE_BEGIN -> 6
      [] q = 6 /\ ev = BATCH_BEGIN -> 7
      [] q = 7 /\ ev = BATCH_END -> 6
      [] q = 6 /\ ev = EPOCH_VALIDATE_END -> 8
      [] q = 5 /\ ~validates /\ ev = EPOCH_END -> 9
      [] q = 8 /\ ev = EPOCH_END -> 9
      [] q = 9 /\ ev = TRAIN_END -> 10
      [] OTHER -> -1

RECURSIVE Run(_, _)
Run(tr, validates) ==
    IF Len(tr) = 0 THEN 0
    ELSE Step(Run(SubSeq(tr, 1, Len(tr) - 1), validates), tr[Len(tr)], validates)

Count(tr, ev) == Len(SelectSeq(tr, LAMBDA e : e = ev))

FitLeft == pc \in {"returned", "raised"}

\* C1: a fit call with epochs >= 1 (one that was not rejected before its
\* first event) has, once it is left, notified TRAIN_BEGIN, then per epoch
\* EPOCH_BEGIN, the training segment, the validation segment if and only if
\* validation data was supplied, EPOCH_END, and then TRAIN_END.
C1_EventSequence ==
    (FitLeft /\ args.epochs >= 1
     /\ outcome.err \notin {"ValueError", "DuplicateNameError"}) =>
        Run(trace, args.validation_data.given) = 10

\* C2: once configure was given an 'update' function, every update of a
\* training batch is a call of that function.
C2_ConfiguredUpdateIsUsed ==
    config = "custom" =>
        \A i \in 1..Len(ops) : ops[i].op = "update" => ops[i].fn = "custom"

Updates == {i \in 1..Len(ops) : ops[i].op = "update"}

BatchDone == Len(ops) > 0 /\ ops[Len(ops)] = Op("notify", BATCH_END, None)

\* C3: a training batch updates exactly once, with the batch's loss, after
\* forward and lossfun and before BATCH_END is notified; a validation batch
\* never updates.
C3_UpdateOncePerTrainingBatch ==
    Len(ops) > 0 =>
        /\ ~batch_logs.train => Updates = {}
        /\ ~BatchDone => Updates = {}
        /\ (BatchDone /\ batch_logs.train) =>
              \E f, l, u \in 1..Len(ops) :
                  /\ f < l /\ l < u /\ u < Len(ops)
                  /\ ops[f].op = "forward"
                  /\ ops[l] = Op("lossfun", "", batch_logs.loss)
                  /\ Updates = {u}
                  /\ ops[u].loss = batch_logs.loss
                  /\ ops[u].fn = update

\* C3's case: the second batch of a training phase is done and has updated
C3_Witness ==
    /\ BatchDone
    /\ batch_logs.train
    /\ batch_logs.batch_index = 1
    /\ Updates # {}

\* C4: fit raises ValueError whenever validation_data is given (is not None)
\* and does not hold exactly two items, before it notifies an event and before
\* it registers a hook or attaches a callback.
C4_FitStep ==
    (pc = "idle" /\ pc' # "idle" /\ args'.validation_data.given
     /\ args'.validation_data.len # 2) =>
        /\ pc' = "raised"
        /\ outcome'.err = "ValueError"
        /\ trace' = <<>>
        /\ UNCHANGED <<hooks, callbacks>>

C4_BadValidationDataRaises == [][C4_FitStep]_vars

PhaseEnded == notified.event \in {EPOCH_TRAIN_END, EPOCH_VALIDATE_END}

Constant(s) == \A i \in 1..Len(s) : s[i] = s[1]

\* exactly one EPOCH_TRAIN_END in each epoch that has reached its EPOCH_END
OneTrainEndPerEpoch ==
    /\ Count(trace, EPOCH_END) <= Count(trace, EPOCH_TRAIN_END)
    /\ Count(trace, EPOCH_TRAIN_END) <= Count(trace, EPOCH_BEGIN)
    /\ Count(trace, EPOCH_BEGIN) <= Count(trace, EPOCH_END) + 1
    /\ notified.event = EPOCH_END =>
           Count(trace, EPOCH_TRAIN_END) = Count(trace, EPOCH_END)

HooksFor(ev) == {i \in 1..Len(hooks) : hooks[i].event = ev}

CallbacksFor(ev) ==
    {j \in 1..Len(callbacks) : callbacks[j].active /\ ev \in callbacks[j].handles}

\* C6: notify(E) calls every hook registered for E, in registration order,
\* then every active attached callback that handles E, each once; during fit
\* the hook logging EPOCH_TRAIN_END runs before the Reporter's handler.
C6_HooksThenCallbacks ==
    LET ev == notified.event
        c  == notified.calls
    IN  ev # "" =>
        /\ Len(c) = Cardinality(HooksFor(ev)) + Cardinality(CallbacksFor(ev))
        /\ \A i \in HooksFor(ev) :
              \E p \in 1..Len(c) : c[p] = HookCall(i, hooks[i])
        /\ \A j \in CallbacksFor(ev) :
              \E p \in 1..Len(c) : c[p] = CallbackCall(callbacks[j])
        /\ \A p, q \in 1..Len(c) :
              p < q =>
                  /\ c[p] # c[q]
                  /\ c[p].kind = "callback" => c[q].kind = "callback"
                  /\ (c[p].kind = "hook" /\ c[q].kind = "hook") => c[p].ref < c[q].ref
        /\ (ev = EPOCH_TRAIN_END /\ acc_func) =>
              \E p, q \in 1..Len(c) :
                  /\ p < q
                  /\ c[p].kind = "hook" /\ c[p].name = "log_training"
                  /\ c[q].kind = "callback" /\ c[q].name = "reporter"

\* C6's case: EPOCH_TRAIN_END reaches two hooks of the application, the
\* logging hook, the progress callback, the Reporter and a callback of the
\* application
C6_Witness ==
    /\ notified.event = EPOCH_TRAIN_END
    /\ Len(notified.calls) = 6
    /\ notified.calls[1].name = "user"
    /\ notified.calls[2].name = "user"

\* the callback attached under the name, when exactly one is
Only(cbs, name) == CHOOSE i \in 1..Len(cbs) : cbs[i].name = name

UniqueNames ==
    \A i, j \in 1..Len(callbacks) : callbacks[i].name = callbacks[j].name => i = j

\* C7: attach_callback(c, update=False) raises for a name already attached
\* and leaves the attached callbacks as they were; attach_callback(c,
\* update=True) replaces the callback of that name, so that one callback of
\* the name is attached, the new one, and an event calls it once and the old
\* one never; so a verbose fit runs with the ProgressCallback it created.
C7_AttachStep ==
    /\ (outcome'.call = "attach_callback(update=False)" /\ pc = "idle"
        /\ insts' # insts /\ Attached(callbacks, "user")) =>
            /\ outcome'.err = "DuplicateNameError"
            /\ callbacks' = callbacks
    /\ (outcome'.call = "attach_callback(update=True)" /\ pc = "idle"
        /\ insts' # insts) =>
            /\ outcome'.err = "none"
            /\ Attached(callbacks', "user")
            /\ Len(callbacks') = Len(callbacks) + (IF Attached(callbacks, "user") THEN 0 ELSE 1)
            /\ \A i \in 1..Len(callbacks') :
                  callbacks'[i].name = "user" => callbacks'[i].inst = insts'["user"]
    /\ UniqueNames'
    /\ \A p, q \in 1..Len(notified'.calls) :
          (notified'.calls[p].kind = "callback" /\ notified'.calls[q].kind = "callback"
           /\ notified'.calls[p].name = notified'.calls[q].name) => p = q
    /\ \A p \in 1..Len(notified'.calls) :
          notified'.calls[p].kind = "callback" =>
              /\ Attached(callbacks', notified'.calls[p].name)
              /\ callbacks'[Only(callbacks', notified'.calls[p].name)].inst = notified'.calls[p].ref
    /\ (pc' # "idle" /\ args'.verbose /\ outcome'.err # "ValueError") =>
          /\ Attached(callbacks', "progress_callback")
          /\ callbacks'[Only(callbacks', "progress_callback")].inst = insts'["progress_callback"]

C7_AttachReplacesOrRaises == [][C7_AttachStep]_vars

\* C7's case: a second callback of the application replaced the first one,
\* and a second verbose fit replaced the first one's ProgressCallback
C7_Witness ==
    /\ insts["user"] = 2
    /\ Attached(callbacks, "user")
    /\ callbacks[Only(callbacks, "user")].inst = 2
    /\ insts["progress_callback"] = 2
    /\ notified.event = BATCH_BEGIN
    /\ Len(notified.calls) = 2


(***************************************************************************)
(* The claims about the Reporter and the Saver, under SpecObservers.       *)
(***************************************************************************)
\* the last n elements of the sequence
LastOf(seq, n) == SubSeq(seq, Len(seq) - n + 1, Len(seq))

\* a fit call with a Reporter attached is running or has just returned
Reporting ==
    /\ acc_func
    /\ Attached(callbacks, "reporter")
    /\ pc \notin {"idle", "raised"}

\* the metrics of the phase that has just ended: the sum of the accuracies
\* of its batches over their number, and the loss of the event's data
PhaseMetrics ==
    [accuracy |-> FDiv(FSum(LastOf(reporter.accs, notified.data.num_batches)),
                       notified.data.num_batches),
     loss |-> notified.data.loss]

C18_HistoryState ==
    Reporting =>
        LET h == reporter.history
        IN  /\ notified.event = EPOCH_TRAIN_END =>
                  /\ Len(h) = epoch
                  /\ h[epoch].training = PhaseMetrics
                  /\ h[epoch].validation = NoMetrics
            /\ notified.event = EPOCH_VALIDATE_END =>
                  /\ Len(h) = epoch
                  /\ h[epoch].validation = PhaseMetrics
            /\ notified.event = EPOCH_END =>
                  /\ Len(h) = notified.data.epoch
                  /\ (h[Len(h)].validation = NoMetrics) <=> ~do_validation
            /\ pc = "returned" =>
                  /\ Len(h) = args.epochs
                  /\ \A e \in 1..Len(h) : (h[e].validation = NoMetrics) <=> ~do_validation

C18_HistoryStep ==
    \A e \in 1..Len(reporter.history) :
        /\ e <= Len(reporter'.history)
        /\ reporter'.history[e].training = reporter.history[e].training
        /\ reporter'.history[e].validation # reporter.history[e].validation =>
               /\ e = epoch
               /\ notified'.event = EPOCH_VALIDATE_END

\* C18: with a Reporter attached, the history has one entry per epoch run, in
\* epoch order; the entry of epoch e has the training metrics of epoch e,
\* whose accuracy is the sum of the accuracies of that phase's batches over
\* its num_batches, and the validation metrics of epoch e when validation
\* ran, None otherwise; after a fit of E epochs it has E entries.
C18_HistoryPerEpoch == [](C18_HistoryState) /\ [][C18_HistoryStep]_vars

\* C18's case: a fit of two epochs with validation has returned, and the
\* training batches of its second epoch had differing accuracies
C18_Witness ==
    /\ Reporting
    /\ pc = "returned"
    /\ args.epochs = 2
    /\ args.size = 2
    /\ do_validation
    /\ Len(reporter.history) = 2
    /\ reporter.accs = <<Float(2), Float(2), Float(2), Float(1), Float(2), Float(1)>>
    /\ reporter.history[2].training.accuracy = FDiv(Float(3), 2)
    /\ reporter.history[2].validation.accuracy = Float(1)

\* the files a Saver of interval k writes in a fit of n epochs
Saves(k, n, fit) ==
    SelectSeq([e \in 1..n |-> [file |-> ModelFile(e), fit |-> fit, epoch |-> e]],
              LAMBDA sv : sv.epoch % k = 0)

\* the files written in the fit call of that number
SavedIn(fit) == SelectSeq(saver.saved, LAMBDA sv : sv.fit = fit)

\* the epochs of the running fit call whose EPOCH_END has been notified
EpochsEnded ==
    IF pc \in {"train_end", "returned"} THEN args.epochs
    ELSE IF pc = "epoch_begin" /\ notified.event = EPOCH_END THEN epoch - 1
    ELSE IF pc \in {"idle", "raised"} THEN 0
    ELSE epoch - 1

C19_SavedState ==
    (Attached(callbacks, "chainer.saver") /\ pc \notin {"idle", "raised"}) =>
        SavedIn(fits) = Saves(saver.interval, EpochsEnded, fits)

C19_SavedStep ==
    saver'.saved # saver.saved =>
        /\ notified'.event = EPOCH_END
        /\ Len(saver'.saved) = Len(saver.saved) + 1
        /\ SubSeq(saver'.saved, 1, Len(saver.saved)) = saver.saved

\* C19: with a Saver of interval k attached, a fit of E epochs writes the
\* model at the EPOCH_END of the epochs e of 1..E with e mod k = 0, once
\* each and in that order, to the file basename.e.npz, and at no other time.
C19_SavesEveryInterval == [](C19_SavedState) /\ [][C19_SavedStep]_vars

\* C19's case: a fit of two epochs has returned with a Saver of interval 2
\* attached, which wrote at epoch 2 only
C19_Witness ==
    /\ Attached(callbacks, "chainer.saver")
    /\ saver.interval = 2
    /\ pc = "returned"
    /\ args.epochs = 2
    /\ saver.saved = <<[file |-> ModelFile(2), fit |-> fits, epoch |-> 2]>>


(***************************************************************************)
(* Repeated fit calls, under Spec.                                         *)
(***************************************************************************)
\* the listeners _init_events_on_fit registers
DefaultObservers ==
    {"log_training", "log_validation", "log_epoch_end", "reporter", "progress_callback"}

\* how many of the listeners a notify called have that name
TimesCalled(name) == Len(SelectSeq(notified.calls, LAMBDA c : c.name = name))

\* C20: a fit call after the first one is not refused because of what the
\* first one registered, and every notify calls each default observer at
\* most once: the default observers do not pile up over fit calls.
C20_FitIsRepeatable ==
    /\ (outcome.call = "fit" /\ fits >= 2) => outcome.err # "DuplicateNameError"
    /\ \A name \in DefaultObservers : TimesCalled(name) <= 1


(***************************************************************************)
(* The dicts handed to the listeners, under SpecRecords.                   *)
(***************************************************************************)
\* a fit call is running and has notified an event of that set
Delivering(events) == pc \notin {"idle", "raised"} /\ notified.event \in events

C22_RecordState ==
    /\ Delivering({EPOCH_BEGIN, EPOCH_END}) =>
          /\ notified.data = [epoch |-> notified.data.epoch, size |-> args.size]
          /\ notified.data = epoch_logs
          /\ marks.epoch_logs \subseteq {EPOCH_BEGIN, EPOCH_END}
    /\ Delivering({EPOCH_END}) =>
          (EPOCH_BEGIN \in marks.epoch_logs) <=> Handles(callbacks, "writer", EPOCH_BEGIN)
    /\ Delivering({EPOCH_VALIDATE_BEGIN, EPOCH_VALIDATE_END}) =>
          /\ marks.logs \subseteq {EPOCH_BEGIN, EPOCH_VALIDATE_BEGIN, EPOCH_VALIDATE_END}
          /\ notified.data.size = args.validation_data.size
    /\ Delivering(PhaseEvents) => notified.data.epoch = epoch_logs.epoch

C22_RecordStep ==
    (pc \notin {"idle", "raised", "epoch_begin"} /\ pc' \notin {"idle", "epoch_begin"}
     /\ notified'.event \notin {EPOCH_BEGIN, EPOCH_END}) =>
        /\ epoch_logs' = epoch_logs
        /\ marks'.epoch_logs = marks.epoch_logs

\* C22: the dict given with EPOCH_END is the dict given with EPOCH_BEGIN of
\* that epoch: it has the keys epoch and size, size being the training set's,
\* and the keys handlers wrote at these two events, and nothing of a phase:
\* no loss, no num_batches, no key a handler wrote into a phase's dict; and
\* the validation phase's dict holds no key written into the training
\* phase's.
C22_PhasesCopyTheEpochRecord == [](C22_RecordState) /\ [][C22_RecordStep]_vars

\* C22's case: an epoch with validation has ended with a writer attached on
\* every event; it wrote into the epoch's dict at EPOCH_BEGIN and EPOCH_END,
\* and into the validation phase's dict at both of its events
C22_Witness ==
    /\ Delivering({EPOCH_END})
    /\ do_validation
    /\ Handles(callbacks, "writer", EPOCH_TRAIN_END)
    /\ marks.epoch_logs = {EPOCH_BEGIN, EPOCH_END}
    /\ marks.logs = {EPOCH_BEGIN, EPOCH_VALIDATE_BEGIN, EPOCH_VALIDATE_END}
    /\ epoch_logs.epoch = 2


(***************************************************************************)
(* The progress bar, under SpecProgress.                                   *)
(***************************************************************************)
\* C23: while a phase's bar is running, every value it was given lies
\* between 1 and the size it was started with, and no value is smaller than
\* the one given before it.
C23_ProgressIsMonotone ==
    pbar.running =>
        \A i \in 1..Len(pbar.values) :
            /\ 1 <= pbar.values[i]
            /\ pbar.values[i] <= pbar.total
            /\ i > 1 => pbar.values[i - 1] <= pbar.values[i]

====
